---------------------------- MODULE Spec2Model ----------------------------
(***************************************************************************)
(* Announcement endpoints of the Mergington High School API                *)
(* (src/backend/routers/announcements.py): list, create, update and delete *)
(* over the announcements collection of a document store.                  *)
(*                                                                         *)
(* Text values are strings, timestamps are integers (clock ticks).  An id  *)
(* string is a tuple of one-character strings, so that ObjectId.is_valid,  *)
(* ObjectId(s) and str(oid) are computed character by character.           *)
(***************************************************************************)
EXTENDS Integers, Sequences, FiniteSets, TLC

VARIABLES store, now, used, last, reqs, deleted, served

vars == <<store, now, used, last, reqs, deleted, served>>

-----------------------------------------------------------------------------
(* Bounds of the model *)

\* the clock runs from 0 to MaxTime
MaxTime == 1
\* the number of requests served in a behaviour
MaxRequests == 2
\* the number of hex digits of an ObjectId string (24 in bson)
OidHexLen == 2
\* the number of clients with a request in flight
NumClients == 2

-----------------------------------------------------------------------------
(* Values *)

\* Python's None in a text field, and in a datetime field
None == "None"
NoDate == -1

\* The fields of AnnouncementUpdate, in declaration order
UpdateFields == {"title", "message", "start_date", "expiration_date"}

DateFields == {"created_at", "start_date", "expiration_date"}

\* dict.get(k): the value under k, None when the key is absent
Get(d, k) == IF k \in DOMAIN d THEN d[k] ELSE IF k \in DateFields THEN NoDate ELSE None

-----------------------------------------------------------------------------
(* bson.ObjectId *)

HexLower == {"0", "1", "2", "3", "4", "5", "6", "7", "8", "9", "a", "b", "c", "d", "e", "f"}
HexUpper == {"A", "B", "C", "D", "E", "F"}

\* bytes.fromhex / binascii.hexlify: the canonical form of a hex digit is lower case
LowerHex(c) ==
    CASE c = "A" -> "a" [] c = "B" -> "b" [] c = "C" -> "c"
      [] c = "D" -> "d" [] c = "E" -> "e" [] c = "F" -> "f"
      [] OTHER -> c

\* ObjectId.is_valid(s) for a str: the right number of hex digits
ObjectId_is_valid(s) ==
    /\ Len(s) = OidHexLen
    /\ \A i \in 1..Len(s) : s[i] \in HexLower \cup HexUpper

\* ObjectId(s): the native id parsed from a valid string
ObjectId(s) == [kind |-> "oid", v |-> [i \in 1..Len(s) |-> LowerHex(s[i])]]

\* an _id held as a plain string
StrId(s) == [kind |-> "str", v |-> s]

\* isinstance(x, ObjectId)
isinstance_ObjectId(x) == x.kind = "oid"

\* str(oid): the lower-case hex string of a native id
str(oid) == oid.v


-----------------------------------------------------------------------------
(* Request inputs *)

Users == {"alice", "bob"}
Credentials == Users \cup {"invalid"}

\* update and delete use the identity only to admit the caller
Callers == {"alice", "invalid"}

\* one id string per character: c repeated OidHexLen times
Rep(c) == [i \in 1..OidHexLen |-> c]

\* id strings a client sends: valid lower-case and upper-case hex, valid hex
\* of another record, a string with a non-hex character, a string too short
IdStrings == {Rep("a"), Rep("A"), Rep("b"), Rep("g"), <<"a">>}

\* the ids the store generates on insert
OidPool == {ObjectId(Rep("a")), ObjectId(Rep("b"))}

\* JSON bodies: a function from the keys present to their values
Restrict(d, S) == [k \in (DOMAIN d) \cap S |-> d[k]]

\* create bodies: well-formed ones, one with the fields a client must not set,
\* and ones with an empty or missing required field
CreateBodies ==
    { [title |-> "T1", message |-> "M1", expiration_date |-> 1],
      [title |-> "T1", message |-> "M1", start_date |-> 1, expiration_date |-> 2,
       author |-> "mallory", created_at |-> MaxTime + 7, _id |-> Rep("b")],
      [title |-> "", message |-> "M1", expiration_date |-> 2],
      [title |-> "T1", message |-> "", expiration_date |-> 2],
      [message |-> "M1", expiration_date |-> 2],
      [title |-> "T1", expiration_date |-> 2],
      [title |-> "T1", message |-> "M1"],
      [title |-> "T1", message |-> "M1", expiration_date |-> NoDate] }

\* update bodies: one field, several fields, no field, an undeclared field,
\* and null or empty values
UpdateBodies ==
    { [title |-> "T2"], [start_date |-> 1], [expiration_date |-> 2],
      [title |-> "T2", message |-> "M2", start_date |-> 1, expiration_date |-> 2],
      [title |-> "T2", author |-> "mallory"],
      [author |-> "mallory"],
      << >>,
      [title |-> None], [message |-> ""], [start_date |-> NoDate],
      [expiration_date |-> NoDate] }

-----------------------------------------------------------------------------
(* The announcements collection: a sequence of documents in natural order, *)
(* _id unique.                                                             *)

Ids(s) == {s[i]._id : i \in 1..Len(s)}

Matching(s, qid) == {i \in 1..Len(s) : s[i]._id = qid}

\* collection.find({"expiration_date": {"$gt": t}}): null is never $gt a date
find_gt(s, t) ==
    SelectSeq(s, LAMBDA d : d.expiration_date # NoDate /\ d.expiration_date > t)

\* collection.find({})
find_all(s) == s

\* collection.insert_one(doc): the store assigns the new _id
insert_one(s, doc, oid) == Append(s, [_id |-> oid] @@ doc)

\* {"$set": fields} applied to one document
Set_fields(doc, fields) ==
    [k \in DOMAIN doc |-> IF k \in DOMAIN fields THEN fields[k] ELSE doc[k]]

\* as find_one_and_update, but with upsert=True
find_one_and_update_upsert(s, qid, fields) ==
    IF Matching(s, qid) = {}
    THEN LET d == [_id |-> qid] @@ fields
         IN [found |-> TRUE, store |-> Append(s, d), doc |-> d]
    ELSE LET i == CHOOSE j \in Matching(s, qid) : TRUE
             d == Set_fields(s[i], fields)
         IN [found |-> TRUE, store |-> [s EXCEPT ![i] = d], doc |-> d]

\* collection.find_one_and_update({"_id": qid}, {"$set": fields}, return_document=True)
find_one_and_update(s, qid, fields) ==
    IF Matching(s, qid) = {}
    THEN [found |-> FALSE, store |-> s]
    ELSE LET i == CHOOSE j \in Matching(s, qid) : TRUE
             d == Set_fields(s[i], fields)
         IN [found |-> TRUE, store |-> [s EXCEPT ![i] = d], doc |-> d]

\* collection.delete_one({"_id": qid})
delete_one(s, qid) ==
    IF Matching(s, qid) = {}
    THEN [deleted_count |-> 0, store |-> s]
    ELSE LET i == CHOOSE j \in Matching(s, qid) : TRUE
         IN [deleted_count |-> 1,
             store |-> SubSeq(s, 1, i - 1) \o SubSeq(s, i + 1, Len(s))]

-----------------------------------------------------------------------------
(* Authentication (src/backend/routers/auth.py) *)

\* get_current_user: the identity of the caller, or an authentication failure
get_current_user(cred) ==
    IF cred \in Users
    THEN [ok |-> TRUE, username |-> cred]
    ELSE [ok |-> FALSE, username |-> None]

-----------------------------------------------------------------------------
(* Pydantic models *)

\* Announcement(**doc): None when a required field is null
Announcement_valid(doc) ==
    /\ Get(doc, "title") # None
    /\ Get(doc, "message") # None
    /\ Get(doc, "created_at") # NoDate
    /\ Get(doc, "expiration_date") # NoDate
    /\ Get(doc, "author") # None
    /\ ~isinstance_ObjectId(doc._id)

Announcement(doc) ==
    [id |-> doc._id.v, title |-> doc.title, message |-> doc.message,
     created_at |-> doc.created_at, start_date |-> Get(doc, "start_date"),
     expiration_date |-> doc.expiration_date, author |-> doc.author]

\* AnnouncementCreate: title and message of length >= 1, expiration_date required
AnnouncementCreate_valid(body) ==
    /\ Get(body, "title") \notin {None, ""}
    /\ Get(body, "message") \notin {None, ""}
    /\ Get(body, "expiration_date") # NoDate

\* AnnouncementCreate(**body): the declared fields only, start_date None by default
AnnouncementCreate(body) ==
    [title |-> body.title, message |-> body.message,
     start_date |-> Get(body, "start_date"), expiration_date |-> body.expiration_date]

\* as AnnouncementUpdate_dict, but the raw body, undeclared fields included
AnnouncementUpdate_dict_raw(body) == body

\* AnnouncementUpdate(**body).dict(exclude_unset=True): the declared fields that were sent
AnnouncementUpdate_dict(body) == Restrict(body, UpdateFields)

\* a response: status code, the store after the call, the response body
Resp(status, s, body) == [status |-> status, store |-> s, body |-> body]

-----------------------------------------------------------------------------
(* The handlers.  Each is a function of the store and the request that     *)
(* gives the response and the store after the call; every handler makes    *)
(* one store call.                                                         *)

\* if isinstance(doc.get("_id"), ObjectId): doc["_id"] = str(doc["_id"])
stringify_id(doc) ==
    IF isinstance_ObjectId(doc._id) THEN [doc EXCEPT !._id = StrId(str(doc._id))] ELSE doc

\* the response model: a document that fails validation is a server error
respond_Announcement(s, doc) ==
    IF Announcement_valid(doc) THEN Resp(200, s, Announcement(doc))
    ELSE Resp(500, s, "Internal Server Error")

\* {"_id": ObjectId(id) if ObjectId.is_valid(id) else id}
id_query(announcement_id) ==
    IF ObjectId_is_valid(announcement_id) THEN ObjectId(announcement_id)
    ELSE StrId(announcement_id)

\* list_announcements, with t the value of datetime.utcnow()
list_announcements(s, t, active_only) ==
    LET docs == IF active_only THEN find_gt(s, t) ELSE find_all(s)
        result == [i \in 1..Len(docs) |-> stringify_id(docs[i])]
    IN IF \A i \in 1..Len(result) : Announcement_valid(result[i])
       THEN Resp(200, s, [i \in 1..Len(result) |-> Announcement(result[i])])
       ELSE Resp(500, s, "Internal Server Error")

\* the id of a request that names no record
NoId == [kind |-> "none", v |-> << >>]

\* a request that ended before its store call
Ended(op, status, body) ==
    [pc |-> "done", op |-> op, status |-> status, body |-> body, qid |-> NoId,
     gone |-> FALSE]

\* as add_user, but without the dependency: any caller is admitted
add_user_open(cred) == [ok |-> TRUE, username |-> cred]

\* user=Depends(get_current_user) of add_announcement
add_user(cred) == get_current_user(cred)

\* the document add_announcement builds
add_doc(data, user, t) ==
    [title |-> data.title, message |-> data.message, created_at |-> t,
     start_date |-> data.start_date, expiration_date |-> data.expiration_date,
     author |-> user.username]

\* as add_request, but author and created_at sent in the body override the
\* values the server sets
add_request_body_wins(body, cred, t) ==
    LET user == add_user(cred) IN
    IF ~user.ok THEN Ended("create", 401, "Unauthorized")
    ELSE IF ~AnnouncementCreate_valid(body) THEN Ended("create", 422, "Unprocessable Entity")
    ELSE [pc |-> "pending", op |-> "create",
          doc |-> Restrict(body, {"author", "created_at"})
                  @@ add_doc(AnnouncementCreate(body), user, t)]

\* add_announcement up to its store call
add_request(body, cred, t) ==
    LET user == add_user(cred) IN
    IF ~user.ok THEN Ended("create", 401, "Unauthorized")
    ELSE IF ~AnnouncementCreate_valid(body) THEN Ended("create", 422, "Unprocessable Entity")
    ELSE [pc |-> "pending", op |-> "create",
          doc |-> add_doc(AnnouncementCreate(body), user, t)]

\* insert_one(doc); doc["_id"] = str(result.inserted_id); return Announcement(**doc)
add_insert(s, doc, oid) ==
    LET after == insert_one(s, doc, oid)
        out == [_id |-> StrId(str(oid))] @@ doc
    IN respond_Announcement(after, out)

add_announcement(s, body, cred, t, oid) ==
    LET q == add_request(body, cred, t) IN
    IF q.pc = "done" THEN Resp(q.status, s, q.body) ELSE add_insert(s, q.doc, oid)

\* user=Depends(get_current_user) of update_announcement
update_user(cred) == get_current_user(cred)

\* as update_request, but without the check for an empty set of fields
update_request_unchecked(announcement_id, body, cred) ==
    IF ~update_user(cred).ok THEN Ended("update", 401, "Unauthorized")
    ELSE [pc |-> "pending", op |-> "update",
          qid |-> id_query(announcement_id), fields |-> AnnouncementUpdate_dict(body)]

\* update_announcement up to its store call
update_request(announcement_id, body, cred) ==
    LET user == update_user(cred)
        update_fields == AnnouncementUpdate_dict(body)
    IN IF ~user.ok THEN Ended("update", 401, "Unauthorized")
       ELSE IF DOMAIN update_fields = {} THEN Ended("update", 400, "No fields to update.")
       ELSE [pc |-> "pending", op |-> "update",
             qid |-> id_query(announcement_id), fields |-> update_fields]

\* find_one_and_update and the lines after it
update_find(s, qid, update_fields) ==
    LET r == find_one_and_update(s, qid, update_fields) IN
    IF ~r.found THEN Resp(404, r.store, "Announcement not found.")
    ELSE respond_Announcement(r.store, stringify_id(r.doc))

update_announcement(s, announcement_id, body, cred) ==
    LET q == update_request(announcement_id, body, cred) IN
    IF q.pc = "done" THEN Resp(q.status, s, q.body) ELSE update_find(s, q.qid, q.fields)

\* user=Depends(get_current_user) of delete_announcement
delete_user(cred) == get_current_user(cred)

\* delete_announcement up to its store call
delete_request(announcement_id, cred) ==
    IF ~delete_user(cred).ok THEN Ended("delete", 401, "Unauthorized")
    ELSE [pc |-> "pending", op |-> "delete", qid |-> id_query(announcement_id)]

\* as delete_find, but without the check of deleted_count
delete_find_unchecked(s, qid) == Resp(200, delete_one(s, qid).store, [success |-> TRUE])

\* delete_one and the lines after it
delete_find(s, qid) ==
    LET r == delete_one(s, qid) IN
    IF r.deleted_count = 0 THEN Resp(404, r.store, "Announcement not found.")
    ELSE Resp(200, r.store, [success |-> TRUE])

delete_announcement(s, announcement_id, cred) ==
    LET q == delete_request(announcement_id, cred) IN
    IF q.pc = "done" THEN Resp(q.status, s, q.body) ELSE delete_find(s, q.qid)

-----------------------------------------------------------------------------
(* Initial states: the collection as the database module leaves it, with   *)
(* announcements whose _id is a plain string.                              *)

SeedDoc(s) ==
    [_id |-> StrId(s), title |-> "T0", message |-> "M0", created_at |-> 0,
     start_date |-> NoDate, expiration_date |-> 0, author |-> "admin"]

SeedStores ==
    {<< >>, <<SeedDoc(Rep("a"))>>, <<SeedDoc(Rep("g"))>>, <<SeedDoc(Rep("a")), SeedDoc(Rep("g"))>>}

NoRequest == [op |-> "none", cred |-> "none", status |-> 0, body |-> "none"]

Idle == [pc |-> "idle"]

Clients == 1..NumClients

Init ==
    /\ store \in SeedStores
    /\ now = 0
    /\ used = Ids(store)
    /\ last = NoRequest
    /\ reqs = [c \in Clients |-> Idle]
    /\ deleted = << >>
    /\ served = 0

\* the ids in a sequence of ids
Range(q) == {q[i] : i \in 1..Len(q)}

\* the ids of s that are no longer in after, appended to the log of deleted ids
LogDeleted(s, after) ==
    IF Ids(s) \ Ids(after) = {} THEN deleted
    ELSE Append(deleted, CHOOSE x \in Ids(s) \ Ids(after) : TRUE)

-----------------------------------------------------------------------------
(* One action per request, handled from start to end *)

\* the last request served: its operation and credential, and its response
Record(op, cred, r) == [op |-> op, cred |-> cred, status |-> r.status, body |-> r.body]

\* one more request is served
Serve == served < MaxRequests /\ served' = served + 1

\* the clock advances
Tick ==
    /\ now < MaxTime
    /\ now' = now + 1
    /\ UNCHANGED <<store, used, last, reqs, deleted, served>>

ListAnnouncements ==
    \E active_only \in BOOLEAN :
        LET r == list_announcements(store, now, active_only) IN
        /\ Serve
        /\ store' = r.store
        /\ last' = Record("list", "none", r)
        /\ UNCHANGED <<now, used, reqs, deleted>>

AddAnnouncement ==
    \E body \in CreateBodies, cred \in Credentials, oid \in OidPool \ used :
        LET r == add_announcement(store, body, cred, now, oid) IN
        /\ Serve
        /\ store' = r.store
        /\ used' = used \cup Ids(r.store)
        /\ last' = Record("create", cred, r)
        /\ UNCHANGED <<now, reqs, deleted>>

UpdateAnnouncement ==
    \E id \in IdStrings, body \in UpdateBodies, cred \in Callers :
        LET r == update_announcement(store, id, body, cred) IN
        /\ Serve
        /\ store' = r.store
        /\ used' = used \cup Ids(r.store)
        /\ last' = Record("update", cred, r)
        /\ UNCHANGED <<now, reqs, deleted>>

DeleteAnnouncement ==
    \E id \in IdStrings, cred \in Callers :
        LET r == delete_announcement(store, id, cred) IN
        /\ Serve
        /\ store' = r.store
        /\ deleted' = LogDeleted(store, r.store)
        /\ last' = Record("delete", cred, r)
        /\ UNCHANGED <<now, used, reqs>>

Next ==
    \/ Tick
    \/ ListAnnouncements
    \/ AddAnnouncement
    \/ UpdateAnnouncement
    \/ DeleteAnnouncement

Spec == Init /\ [][Next]_vars

-----------------------------------------------------------------------------
(* Concurrent requests: a request is received, makes its one store call    *)
(* atomically, and returns; the store calls of different requests          *)
(* interleave in any order.                                                *)

ConcIds == {Rep("a"), Rep("A"), Rep("g")}
ConcCreateBodies == {[title |-> "T1", message |-> "M1", expiration_date |-> 2]}
ConcUpdateBodies == {[title |-> "T2"], << >>}
ConcCredentials == {"alice", "invalid"}

\* another client's request is waiting for its store call
InFlight(c) == \E d \in Clients \ {c} : reqs[d].pc = "pending"

\* a request is received and runs up to its store call; conc records whether
\* it overlaps another request
Receive(c) ==
    /\ reqs[c].pc = "idle"
    /\ Serve
    /\ \E q \in {add_request(b, cred, now) : b \in ConcCreateBodies, cred \in ConcCredentials}
              \cup {update_request(id, b, cred) :
                       id \in ConcIds, b \in ConcUpdateBodies, cred \in ConcCredentials}
              \cup {delete_request(id, cred) : id \in ConcIds, cred \in ConcCredentials} :
           reqs' = [reqs EXCEPT ![c] = [conc |-> InFlight(c)] @@ q]
    /\ UNCHANGED <<store, now, used, last, deleted>>

\* the response of a store call, with whether the record asked for had
\* already been deleted when the call was made
Done(r, q) ==
    [pc |-> "done", op |-> q.op, status |-> r.status, body |-> r.body, conc |-> q.conc,
     qid |-> IF "qid" \in DOMAIN q THEN q.qid ELSE NoId,
     gone |-> "qid" \in DOMAIN q /\ q.qid \in Range(deleted)]

InsertCall(c) ==
    /\ reqs[c].pc = "pending" /\ reqs[c].op = "create"
    /\ \E oid \in OidPool \ used :
          LET r == add_insert(store, reqs[c].doc, oid) IN
          /\ store' = r.store
          /\ used' = used \cup Ids(r.store)
          /\ reqs' = [reqs EXCEPT ![c] = Done(r, reqs[c])]
    /\ UNCHANGED <<now, last, deleted, served>>

UpdateCall(c) ==
    /\ reqs[c].pc = "pending" /\ reqs[c].op = "update"
    /\ LET r == update_find(store, reqs[c].qid, reqs[c].fields) IN
          /\ store' = r.store
          /\ used' = used \cup Ids(r.store)
          /\ reqs' = [reqs EXCEPT ![c] = Done(r, reqs[c])]
    /\ UNCHANGED <<now, last, deleted, served>>

DeleteCall(c) ==
    /\ reqs[c].pc = "pending" /\ reqs[c].op = "delete"
    /\ LET r == delete_find(store, reqs[c].qid) IN
          /\ store' = r.store
          /\ deleted' = LogDeleted(store, r.store)
          /\ reqs' = [reqs EXCEPT ![c] = Done(r, reqs[c])]
    /\ UNCHANGED <<now, used, last, served>>

\* the response is sent and the client may send another request
Return(c) ==
    /\ reqs[c].pc = "done"
    /\ reqs' = [reqs EXCEPT ![c] = Idle]
    /\ UNCHANGED <<store, now, used, last, deleted, served>>

ConcNext ==
    \/ Tick
    \/ \E c \in Clients : Receive(c)
    \/ \E c \in Clients : InsertCall(c)
    \/ \E c \in Clients : UpdateCall(c)
    \/ \E c \in Clients : DeleteCall(c)
    \/ \E c \in Clients : Return(c)

ConcSpec == Init /\ [][ConcNext]_vars

-----------------------------------------------------------------------------
(* Properties *)

WriteOps == {"create", "update", "delete"}

\* the update bodies that supply none of the declared fields
EmptyUpdates == {b \in UpdateBodies : (DOMAIN b) \cap UpdateFields = {}}

\* the records an id string denotes: the native id parsed from it, or the
\* literal string
Denoted(s, id) ==
    {i \in 1..Len(s) : \/ s[i]._id = StrId(id)
                       \/ ObjectId_is_valid(id) /\ s[i]._id = ObjectId(id)}

\* the stored announcements that are active at time t, as they are returned
ActiveAt(s, t) == SelectSeq(s, LAMBDA d : d.expiration_date > t)

Returned(docs) == [i \in 1..Len(docs) |-> Announcement(stringify_id(docs[i]))]

\* C1: list(active_only=true) returns exactly the stored announcements whose
\* expiration_date is strictly greater than now, list(active_only=false)
\* returns every stored announcement, and list never changes the store.
C1_ListReturnsActive ==
    LET active == list_announcements(store, now, TRUE)
        all == list_announcements(store, now, FALSE)
    IN /\ active.status = 200 /\ all.status = 200
       /\ active.store = store /\ all.store = store
       /\ active.body = Returned(ActiveAt(store, now))
       /\ all.body = Returned(store)

\* C2: a successful create persists exactly one new record whose author is
\* the username of the identity and whose created_at is the time of the
\* call, whatever the body says; the response carries the same author and
\* created_at and the id the store assigned, as a string.
C2_CreateSetsAuthorAndTime ==
    \A body \in CreateBodies, cred \in Users, oid \in OidPool \ used :
        LET r == add_announcement(store, body, cred, now, oid)
            new == r.store[Len(r.store)]
        IN r.status = 200 =>
              /\ Len(r.store) = Len(store) + 1
              /\ SubSeq(r.store, 1, Len(store)) = store
              /\ new.author = get_current_user(cred).username
              /\ new.created_at = now
              /\ new._id = oid
              /\ r.body.author = new.author
              /\ r.body.created_at = new.created_at
              /\ r.body.id = str(oid)

C2_Witness ==
    /\ last.op = "create" /\ last.status = 200
    /\ \E i \in 1..Len(store) :
          /\ store[i]._id = ObjectId(last.body.id)
          /\ store[i].author = last.cred
          /\ store[i].created_at = now
          /\ now > 0
    \* the one create body with a start_date also carries author, created_at and _id
    /\ last.body.start_date = 1

\* C3: an id string matches the record it denotes whether the record's id is
\* stored as a native id or as a plain string: update and delete of such an
\* id do not fail with NotFoundError.
C3_IdMatchesEitherForm ==
    \A id \in IdStrings, cred \in Callers \cap Users :
        Denoted(store, id) # {} =>
            /\ update_announcement(store, id, [title |-> "T2"], cred).status # 404
            /\ delete_announcement(store, id, cred).status # 404

\* C4: every stored announcement has an expiration_date.
C4_ExpirationPresent ==
    \A i \in 1..Len(store) : Get(store[i], "expiration_date") # NoDate

\* C5: a successful update changes, in the matched record only, exactly the
\* supplied fields among title, message, start_date and expiration_date;
\* its other fields, its id, created_at and author, and every other record
\* keep their values.
C5_UpdateFrame ==
    \A id \in IdStrings, body \in UpdateBodies, cred \in Callers \cap Users :
        LET r == update_announcement(store, id, body, cred) IN
        r.status = 200 =>
            /\ Len(r.store) = Len(store)
            /\ \E i \in Denoted(store, id) :
                  /\ \A j \in 1..Len(store) : j # i => r.store[j] = store[j]
                  /\ DOMAIN r.store[i] = DOMAIN store[i]
                  /\ \A k \in DOMAIN store[i] :
                        r.store[i][k] = IF k \in UpdateFields /\ k \in DOMAIN body
                                        THEN body[k] ELSE store[i][k]

C5_Witness ==
    /\ last.op = "update" /\ last.status = 200
    /\ Len(store) = 2
    /\ \E i \in 1..2 :
          /\ store[i]._id.v = last.body.id
          /\ store[i].title = "T2" /\ store[i].message = "M1"
          /\ store[i].author \in Users
          /\ store[3 - i].title = "T0"

\* C6: update with an empty set of fields fails with 400 whatever the id,
\* and leaves the store unchanged.
C6_EmptyUpdateRejected ==
    \A id \in IdStrings, body \in EmptyUpdates, cred \in Callers \cap Users :
        LET r == update_announcement(store, id, body, cred) IN
        r.status = 400 /\ r.store = store

C6_Witness ==
    /\ last.op = "update" /\ last.status = 400 /\ last.cred \in Users
    /\ store # << >>

\* C7: update with a non-empty set of fields, and delete, of an id that
\* matches no stored record fail with 404 and leave the store unchanged.
C7_MissingIdNotFound ==
    \A id \in IdStrings, cred \in Callers \cap Users :
        Denoted(store, id) = {} =>
            /\ \A body \in UpdateBodies \ EmptyUpdates :
                  LET r == update_announcement(store, id, body, cred) IN
                  r.status = 404 /\ r.store = store
            /\ LET r == delete_announcement(store, id, cred) IN
               r.status = 404 /\ r.store = store

C7_Witness ==
    /\ last.op \in {"update", "delete"} /\ last.status = 404
    /\ store # << >>
    /\ \E id \in IdStrings : Denoted(store, id) = {}

\* C8: create, update and delete with an absent or invalid identity fail
\* with 401 and leave the store unchanged, so every change of the store is
\* made by a request with a valid identity; list needs no identity.
C8_WritesNeedIdentity ==
    [][/\ (last'.op \in WriteOps /\ last'.cred \notin Users)
            => (last'.status = 401 /\ store' = store)
       /\ store' # store => (last'.op \in WriteOps /\ last'.cred \in Users)
       /\ last'.op = "list" => last'.status # 401]_vars

C8_Witness ==
    /\ last.op \in WriteOps /\ last.cred \notin Users /\ last.status = 401
    /\ store # << >>

\* C9: every stored announcement has a non-empty title and a non-empty message.
C9_TitleMessageNonEmpty ==
    \A i \in 1..Len(store) :
        /\ Get(store[i], "title") \notin {None, ""}
        /\ Get(store[i], "message") \notin {None, ""}

\* C10: under any interleaving, a record whose delete succeeded is absent
\* from the store and stays absent; no id is deleted twice, so of several
\* deletes of one id at most one succeeds and the others fail with 404; an
\* update whose store call follows the delete fails with 404 and never
\* re-creates the record.
C10_DeletedStaysAbsent ==
    /\ \A x \in Range(deleted) : x \notin Ids(store)
    /\ \A i, j \in 1..Len(deleted) : deleted[i] = deleted[j] => i = j
    /\ \A c \in Clients :
          /\ (reqs[c].pc = "done" /\ reqs[c].op = "delete") => reqs[c].status \in {200, 401, 404}
          /\ (reqs[c].pc = "done" /\ reqs[c].op \in {"update", "delete"} /\ reqs[c].gone)
                => reqs[c].status = 404

C10_Witness ==
    \E c, d \in Clients :
        /\ c # d
        /\ reqs[c].pc = "done" /\ reqs[c].op = "delete" /\ reqs[c].status = 200
        /\ reqs[d].pc = "done" /\ reqs[d].op = "delete" /\ reqs[d].status = 404
        /\ reqs[d].qid = reqs[c].qid /\ reqs[d].gone /\ reqs[d].conc

=============================================================================
